---- MODULE Spec2Model ----
(***************************************************************************)
(* Order lifecycle of flow-backend (src/main.py): pay_create persists a    *)
(* Pending order after the gateway created a transaction,                  *)
(* flow_confirmation marks it Paid and mints the download token, download  *)
(* authorizes a download token, send_email runs as a background task.      *)
(*                                                                         *)
(* Strings of the program that the code takes apart (emails) are sequences *)
(* of one-character strings; uuid4 values are the integers 1, 2, 3, ... in *)
(* the order they are drawn, so every draw is fresh; SQL NULL / Python     *)
(* None in the integer-valued columns is 0.                                *)
(***************************************************************************)
EXTENDS Integers, Sequences, FiniteSets, TLC

\* ------------------------------------------------------------------ bounds
MaxOrders == 2      \* rows the orders table may hold
MaxTime == 3        \* readings of datetime.utcnow()
MaxTasks == 1       \* background tasks not yet run

\* --------------------------------------------------------------- constants
NULL == 0
Pending == 1
Paid == 2

PRODUCT_DRIVE_URL == ""
DOWNLOAD_BASE_URL == "https://dl"
EMAIL_PROVIDERS == {"smtp", "resend"}

\* ------------------------------------------------------------------ inputs
Tokens == 1..(MaxOrders + 1)
Urls == {"https://gw/pay"}
HttpStatuses == {200, 500}
Workers == {"w1", "w2"}

\* uuid4 draws that reach the state: two per order, and mints
MaxUuid == 3 * MaxOrders

\* request bodies of POST /pay/create: the "email" of the payload
PayloadEmails ==
  { <<>>,                                   \* empty or missing
    <<" ", "A", "@", "b", ".", "c", " ">>,  \* valid once stripped and lowered
    <<"b", "@", ".", ".", "c">>,            \* valid: "." is in [^@\s]
    <<"a", "b", ".", "c">>,                 \* no "@"
    <<"a", ".", "b", "@", "c">>,            \* no "." in the domain part
    <<"a", "@", "b", ".">>,                 \* nothing after the "."
    <<"a", "@", "@", "b", ".", "c">>,       \* two "@"
    <<"a", " ", "@", "b", ".", "c">> }      \* whitespace inside

\* ------------------------------------------------------------------- state
VARIABLES
  orders,          \* table orders, rows in rowid (insertion) order
  uuid_ctr,        \* uuid4 values drawn so far
  now,             \* datetime.utcnow()
  tasks,           \* background_tasks added and not yet run
  email_provider,  \* EMAIL_PROVIDER
  req,             \* confirmation requests in flight, per worker
  last             \* the step just taken: request, gateway answer, response

vars == <<orders, uuid_ctr, now, tasks, email_provider, req, last>>

\* ------------------------------------------------------------------- utils
Whitespace == {" ", "\t"}

ToLower(c) == CASE c = "A" -> "a" [] c = "B" -> "b" [] c = "C" -> "c" [] OTHER -> c

RECURSIVE lstrip(_)
lstrip(s) == IF s # <<>> /\ Head(s) \in Whitespace THEN lstrip(Tail(s)) ELSE s

RECURSIVE rstrip(_)
rstrip(s) ==
  IF s # <<>> /\ s[Len(s)] \in Whitespace THEN rstrip(SubSeq(s, 1, Len(s) - 1)) ELSE s

strip(s) == rstrip(lstrip(s))

lower(s) == [i \in 1..Len(s) |-> ToLower(s[i])]

\* ^[^@\s]+@[^@\s]+\.[^@\s]+$ : i is the "@", j the "." the pattern names
EMAIL_REGEX_match(s) ==
  \E i \in 1..Len(s), j \in 1..Len(s) :
    /\ 1 < i /\ i + 1 < j /\ j < Len(s)
    /\ s[i] = "@" /\ s[j] = "."
    /\ \A k \in 1..Len(s) : k # i => (s[k] # "@" /\ s[k] \notin Whitespace)

\* the pattern without its "\." : any local@domain passes
is_valid_email_no_dot(email) ==
  /\ email # <<>>
  /\ \E i \in 1..Len(email) :
       /\ 1 < i /\ i < Len(email) /\ email[i] = "@"
       /\ \A k \in 1..Len(email) : k # i => (email[k] # "@" /\ email[k] \notin Whitespace)

is_valid_email(email) == email # <<>> /\ EMAIL_REGEX_match(email)

\* ---------------------------------------------------------------------- db
\* the INSERT with status 2 in place of 1
NewOrder_paid(order_id, created_at, email, commerce_order, flow_token) ==
  [ id |-> order_id, created_at |-> created_at, email |-> email,
    commerce_order |-> commerce_order, flow_token |-> flow_token,
    status |-> 2, download_token |-> 0, paid_at |-> 0 ]

\* INSERT INTO orders VALUES (?,?,?,?,?,?,?,?) with status 1 and two NULLs
NewOrder(order_id, created_at, email, commerce_order, flow_token) ==
  [ id |-> order_id, created_at |-> created_at, email |-> email,
    commerce_order |-> commerce_order, flow_token |-> flow_token,
    status |-> Pending, download_token |-> NULL, paid_at |-> NULL ]

\* the constraints of CREATE TABLE orders: id PRIMARY KEY, flow_token NOT NULL
db_create_order_raises(tbl, order_id, flow_token) ==
  \/ \E i \in 1..Len(tbl) : tbl[i].id = order_id
  \/ flow_token = NULL

db_create_order(tbl, order_id, created_at, email, commerce_order, flow_token) ==
  Append(tbl, NewOrder(order_id, created_at, email, commerce_order, flow_token))

\* rows of SELECT ... WHERE flow_token=?, in rowid order
RowsByFlowToken(tbl, flow_token) ==
  { i \in 1..Len(tbl) : tbl[i].flow_token = flow_token }

Min(S) == CHOOSE x \in S : \A y \in S : x <= y

\* the SELECT without its WHERE: the first row of the table, whatever the token
db_get_by_flow_token_no_where(tbl, flow_token) ==
  IF tbl = <<>> THEN <<>> ELSE << tbl[1] >>

\* cur.fetchone(): <<>> stands for None, <<row>> for the first row
db_get_by_flow_token(tbl, flow_token) ==
  IF RowsByFlowToken(tbl, flow_token) = {} THEN <<>>
  ELSE << tbl[Min(RowsByFlowToken(tbl, flow_token))] >>

\* the UPDATE writing status to every row: 2 where the token matches, 1 elsewhere
db_mark_paid_all_rows(tbl, flow_token, download_token, paid_at) ==
  [ i \in 1..Len(tbl) |->
      IF tbl[i].flow_token = flow_token
      THEN [ tbl[i] EXCEPT !.status = 2,
                           !.download_token = download_token,
                           !.paid_at = paid_at ]
      ELSE [ tbl[i] EXCEPT !.status = 1 ] ]

\* db_mark_paid whose UPDATE also sets created_at
db_mark_paid_sets_created_at(tbl, flow_token, download_token, paid_at) ==
  [ i \in 1..Len(tbl) |->
      IF tbl[i].flow_token = flow_token
      THEN [ tbl[i] EXCEPT !.status = Paid,
                           !.download_token = download_token,
                           !.paid_at = paid_at,
                           !.created_at = paid_at ]
      ELSE tbl[i] ]

\* the UPDATE without paid_at=?
db_mark_paid_no_paid_at(tbl, flow_token, download_token, paid_at) ==
  [ i \in 1..Len(tbl) |->
      IF tbl[i].flow_token = flow_token
      THEN [ tbl[i] EXCEPT !.status = Paid,
                           !.download_token = download_token ]
      ELSE tbl[i] ]

\* UPDATE orders SET status=2, download_token=?, paid_at=? WHERE flow_token=?
db_mark_paid(tbl, flow_token, download_token, paid_at) ==
  [ i \in 1..Len(tbl) |->
      IF tbl[i].flow_token = flow_token
      THEN [ tbl[i] EXCEPT !.status = Paid,
                           !.download_token = download_token,
                           !.paid_at = paid_at ]
      ELSE tbl[i] ]

\* rows of SELECT email, status ... WHERE download_token=? (NULL equals nothing)
RowsByDownloadToken(tbl, download_token) ==
  { i \in 1..Len(tbl) : /\ tbl[i].download_token # NULL
                        /\ tbl[i].download_token = download_token }

\* the SELECT matching the id column in place of download_token
db_get_by_download_token_by_id(tbl, download_token) ==
  IF \E i \in 1..Len(tbl) : tbl[i].id = download_token
  THEN << tbl[CHOOSE i \in 1..Len(tbl) : tbl[i].id = download_token] >>
  ELSE <<>>

db_get_by_download_token(tbl, download_token) ==
  IF RowsByDownloadToken(tbl, download_token) = {} THEN <<>>
  ELSE << tbl[Min(RowsByDownloadToken(tbl, download_token))] >>

\* ----------------------------------------------------------------- gateway
\* What the gateway may answer to POST /payment/create: no answer in time,
\* a body that is not JSON, or a JSON object with or without token and url.
NoCall == [ kind |-> "nocall", http |-> 0, token |-> NULL, url |-> "", status |-> 0 ]

\* the step called the gateway; what came back is not kept
Called == [ NoCall EXCEPT !.kind = "called" ]

\* the status query was answered: with status 2, or with another or none
Answered2 == [ NoCall EXCEPT !.kind = "status_2" ]
AnsweredOther == [ NoCall EXCEPT !.kind = "status_other" ]

CreateAnswers(toks) ==
  { [ kind |-> "timeout", http |-> 0, token |-> NULL, url |-> "", status |-> 0 ] }
  \cup { [ kind |-> k, http |-> h, token |-> NULL, url |-> "", status |-> 0 ] :
           k \in {"notjson", "error_obj"}, h \in HttpStatuses }
  \cup { [ kind |-> "token_only", http |-> h, token |-> t, url |-> "", status |-> 0 ] :
           h \in HttpStatuses, t \in toks }
  \cup { [ kind |-> "token_url", http |-> h, token |-> t, url |-> u, status |-> 0 ] :
           h \in HttpStatuses, t \in toks \cup {NULL}, u \in Urls }

\* What the gateway may answer to GET /payment/getStatus.
StatusAnswers ==
  { [ kind |-> k, http |-> 0, token |-> NULL, url |-> "", status |-> 0 ] :
      k \in {"timeout", "notjson", "no_status"} }
  \cup { [ kind |-> "status", http |-> 0, token |-> NULL, url |-> "", status |-> s ] :
           s \in 1..3 }

\* requests.post(..., timeout=20) and resp.json(): raise, or hand back the body
flow_post_raises(answer) == answer.kind \in {"timeout", "notjson"}

flow_post(answer) ==
  [ has_token |-> answer.kind \in {"token_only", "token_url"},
    token |-> answer.token,
    has_url |-> answer.kind = "token_url",
    url |-> answer.url ]

flow_get_status_raises(answer) == answer.kind \in {"timeout", "notjson"}

\* status.get("status", 0) of the body flow_get_status hands back
flow_get_status(answer) == IF answer.kind = "status" THEN answer.status ELSE 0

\* ------------------------------------------------------------------- steps
\* no message: the step ran no background task
NoTask == [ to |-> <<>>, link |-> <<>> ]

\* the record of a step: the handler that ran, the status code of its
\* response, what the claims read of its request and of its answer, and the
\* message a background task was run with
Step(op, code, token, dtoken, gw, url) ==
  [ op |-> op, code |-> code, token |-> token, dtoken |-> dtoken,
    gw |-> gw, url |-> url, msg |-> NoTask ]

Idle == [ pc |-> "idle", token |-> NULL, email |-> <<>>, download_token |-> NULL ]

Init ==
  /\ orders = <<>>
  /\ uuid_ctr = 0
  /\ now = 1
  /\ tasks = <<>>
  /\ email_provider \in EMAIL_PROVIDERS
  /\ req = [ w \in Workers |-> Idle ]
  /\ last = Step("init", 0, NULL, NULL, NoCall, <<>>)

\* datetime.utcnow(): every reading is later than the one before, up to the
\* last instant the model tells apart
utcnow_next(t) == IF t < MaxTime THEN t + 1 ELSE t

\* POST /pay/create
\* line 189 for each payload: (payload.get("email") or "").strip().lower()
NormalisedEmail == [ e \in PayloadEmails |-> lower(strip(e)) ]

\* line 190 for each payload: is_valid_email(email)
EmailIsValid == [ e \in PayloadEmails |-> is_valid_email(NormalisedEmail[e]) ]

pay_create(payload_email, answer) ==
  LET email == NormalisedEmail[payload_email]
      order_id == uuid_ctr + 1
      commerce_order == uuid_ctr + 2
      data == flow_post(answer)
      token == data.token
      checkout_url == << data.url, "?token=", token >>
      fails(code, gw) ==
        /\ last' = Step("pay_create", code, NULL, NULL, gw, <<>>)
        /\ UNCHANGED <<orders, uuid_ctr, now>>
  IN
  /\ IF ~EmailIsValid[payload_email] THEN fails(400, NoCall)
     ELSE IF flow_post_raises(answer) THEN fails(500, Called)
     ELSE IF ~data.has_token \/ ~data.has_url THEN fails(500, Called)
     ELSE IF db_create_order_raises(orders, order_id, token) THEN fails(500, Called)
     ELSE /\ Len(orders) < MaxOrders
          /\ orders' = db_create_order(orders, order_id, now, email, commerce_order, token)
          /\ uuid_ctr' = uuid_ctr + 2
          /\ now' = utcnow_next(now)
          /\ last' = Step("pay_create", 200, token, NULL, Called, checkout_url)
  /\ UNCHANGED <<tasks, email_provider, req>>

\* line 220 taking any reported status for a payment
is_paid_any_status(status) == status # 0

\* line 220 with >= in place of ==
is_paid_at_least(status) == status >= 2

\* line 220 of flow_confirmation: int(status.get("status", 0)) == 2
is_paid(status) == status = 2

\* line 224 without the reuse: a new token on every confirmation
existing_or_new_always_new(existing_token, fresh) == fresh

\* line 224 of flow_confirmation: existing_token or uuid.uuid4().hex
existing_or_new(existing_token, fresh) ==
  IF existing_token # NULL THEN existing_token ELSE fresh

\* the link built without the token: DOWNLOAD_BASE_URL/download/ alone
EmailTask_no_token(email, download_token) ==
  [ to |-> email, link |-> << DOWNLOAD_BASE_URL, "/download/", NULL >> ]

\* the arguments of background_tasks.add_task(send_email, email, subject, body)
EmailTask(email, download_token) ==
  [ to |-> email, link |-> << DOWNLOAD_BASE_URL, "/download/", download_token >> ]

\* what the status query of line 219 came back with, as the step records it
Observed(answer) ==
  IF flow_get_status(answer) = 2 THEN Answered2 ELSE AnsweredOther

\* POST /flow/confirmation, run from request to response
flow_confirmation(token, answer) ==
  LET order == db_get_by_flow_token(orders, token)
      download_token == existing_or_new(order[1].download_token, uuid_ctr + 1)
      status == flow_get_status(answer)
  IN
  /\ IF flow_get_status_raises(answer)
     THEN /\ last' = Step("flow_confirmation", 500, NULL, NULL, NoCall, <<>>)
          /\ UNCHANGED <<orders, uuid_ctr, now, tasks>>
     ELSE IF ~is_paid(status) \/ order = <<>>
     THEN /\ last' = Step("flow_confirmation", 200, token, NULL, Observed(answer), <<>>)
          /\ UNCHANGED <<orders, uuid_ctr, now, tasks>>
     ELSE /\ download_token <= MaxUuid
          /\ Len(tasks) < MaxTasks
          /\ last' = Step("flow_confirmation", 200, token, download_token,
                          Observed(answer), <<>>)
          /\ uuid_ctr' = IF download_token > uuid_ctr THEN download_token ELSE uuid_ctr
          /\ orders' = db_mark_paid(orders, token, download_token, now)
          /\ tasks' = Append(tasks, EmailTask(order[1].email, download_token))
          /\ now' = utcnow_next(now)
  /\ UNCHANGED <<email_provider, req>>

\* GET /download/{download_token}
download(download_token) ==
  LET row == db_get_by_download_token(orders, download_token) IN
  /\ last' = Step("download",
                  IF row = <<>> \/ row[1].status # 2 THEN 403
                  ELSE IF PRODUCT_DRIVE_URL # "" THEN 307 ELSE 200,
                  NULL, NULL, NoCall, <<>>)
  /\ UNCHANGED <<orders, uuid_ctr, now, tasks, email_provider, req>>

\* what the email transport may do with a message
TransportAnswers == {"accepted", "refused", "timeout"}

\* lines 150-165: requests.post raises when no answer comes in time, and
\* line 165 raises RuntimeError on a status code >= 300
send_email_via_resend_raises(transport) == transport # "accepted"

\* send_email without its try/except: what the transport raises escapes
send_email_raises_uncaught(provider, transport) ==
  provider = "resend" /\ send_email_via_resend_raises(transport)

\* lines 168-173: whatever the body of the try raises is an Exception, and the
\* except clause prints it; nothing escapes send_email
send_email_raises(provider, transport) ==
  LET raised_in_try == provider = "resend" /\ send_email_via_resend_raises(transport)
      caught == raised_in_try
  IN raised_in_try /\ ~caught

\* send_email, run as the background task at the head of the queue, after
\* the response of the confirmation that added it; code 0: it returned, code
\* 1: it raised. The message reaches a transport under "resend" alone.
send_email(transport) ==
  /\ tasks # <<>>
  /\ tasks' = Tail(tasks)
  /\ last' = [ Step(IF email_provider = "resend" THEN "send_email_via_resend" ELSE "send_email",
                    IF send_email_raises(email_provider, transport) THEN 1 ELSE 0,
                    NULL, NULL,
                    [ NoCall EXCEPT !.kind = IF email_provider = "resend" THEN transport ELSE "nocall" ],
                    <<>>)
                EXCEPT !.msg = Head(tasks) ]
  /\ UNCHANGED <<orders, uuid_ctr, now, email_provider, req>>

\* the gateway issues one token per transaction
FreshTokens ==
  LET unused == Tokens \ { orders[i].flow_token : i \in 1..Len(orders) }
  IN IF unused = {} THEN {} ELSE { Min(unused) }

DownloadTokens == 1..(MaxUuid + 1)

Next ==
  \/ \E e \in PayloadEmails :
       IF EmailIsValid[e]
       THEN \E a \in CreateAnswers(FreshTokens) : pay_create(e, a)
       ELSE pay_create(e, NoCall)
  \/ \E t \in Tokens, a \in StatusAnswers : flow_confirmation(t, a)
  \/ \E d \in DownloadTokens : download(d)
  \/ \E tr \in TransportAnswers : send_email(tr)

Spec == Init /\ [][Next]_vars

\* ------------------------------------------------- concurrent confirmations
\* flow_confirmation served by several workers over the one orders.db: each
\* call of the handler into the gateway or the store is a step of its own.

\* line 219: status = flow_get_status(token), and the test of line 220
confirm_status(w, token, answer) ==
  /\ req[w].pc = "idle"
  /\ IF flow_get_status_raises(answer)
     THEN /\ last' = Step("flow_confirmation", 500, NULL, NULL, NoCall, <<>>)
          /\ UNCHANGED req
     ELSE IF ~is_paid(flow_get_status(answer))
     THEN /\ last' = Step("flow_confirmation", 200, NULL, NULL, NoCall, <<>>)
          /\ UNCHANGED req
     ELSE /\ req' = [ req EXCEPT ![w] = [ Idle EXCEPT !.pc = "lookup", !.token = token ] ]
          /\ last' = Step("flow_get_status", 0, NULL, NULL, NoCall, <<>>)
  /\ UNCHANGED <<orders, uuid_ctr, now, tasks, email_provider>>

\* lines 221-224: order = db_get_by_flow_token(token), and the token to persist
confirm_lookup(w) ==
  LET token == req[w].token
      order == db_get_by_flow_token(orders, token)
      download_token == existing_or_new(order[1].download_token, uuid_ctr + 1)
  IN
  /\ req[w].pc = "lookup"
  /\ IF order = <<>>
     THEN /\ req' = [ req EXCEPT ![w] = Idle ]
          /\ last' = Step("flow_confirmation", 200, NULL, NULL, NoCall, <<>>)
          /\ UNCHANGED uuid_ctr
     ELSE /\ download_token <= MaxUuid
          /\ uuid_ctr' = IF download_token > uuid_ctr THEN download_token ELSE uuid_ctr
          /\ req' = [ req EXCEPT ![w] = [ pc |-> "mark", token |-> token,
                                          email |-> order[1].email,
                                          download_token |-> download_token ] ]
          /\ last' = Step("db_get_by_flow_token", 0, NULL, NULL, NoCall, <<>>)
  /\ UNCHANGED <<orders, now, tasks, email_provider>>

\* lines 225-233: db_mark_paid, add_task and the response
confirm_mark(w) ==
  /\ req[w].pc = "mark"
  /\ Len(tasks) < MaxTasks
  /\ orders' = db_mark_paid(orders, req[w].token, req[w].download_token, now)
  /\ tasks' = Append(tasks, EmailTask(req[w].email, req[w].download_token))
  /\ now' = utcnow_next(now)
  /\ req' = [ req EXCEPT ![w] = Idle ]
  /\ last' = Step("flow_confirmation", 200, req[w].token, req[w].download_token,
                  NoCall, <<>>)
  /\ UNCHANGED <<uuid_ctr, email_provider>>

NextConc ==
  \/ \E e \in PayloadEmails :
       IF EmailIsValid[e]
       THEN \E a \in CreateAnswers(FreshTokens) : pay_create(e, a)
       ELSE pay_create(e, NoCall)
  \/ \E w \in Workers, t \in Tokens, a \in StatusAnswers : confirm_status(w, t, a)
  \/ \E w \in Workers : confirm_lookup(w)
  \/ \E w \in Workers : confirm_mark(w)
  \/ \E d \in DownloadTokens : download(d)
  \/ \E tr \in TransportAnswers : send_email(tr)

SpecConc == Init /\ [][NextConc]_vars

\* ================================================================== claims
HasRow(tbl, i) == i \in 1..Len(tbl)

PaidRows(tbl, flow_token) ==
  { i \in 1..Len(tbl) : tbl[i].flow_token = flow_token /\ tbl[i].status = Paid }

\* the gateway answered the status query, and the answer carries status 2
Reports2(a) == ~flow_get_status_raises(a) /\ flow_get_status(a) = 2

Status2Answers == { a \in StatusAnswers : Reports2(a) }

\* C1: with the handlers run one after the other, a download token, once an
\* order holds one, never changes; a confirmation (gateway status 2) for a
\* token whose order an earlier confirmation already marked Paid leaves
\* exactly one Paid order for that token, holding the token minted first.
C1_TokenStableSequential ==
  [][ /\ \A i \in 1..Len(orders) :
           orders[i].download_token # NULL =>
             /\ HasRow(orders', i)
             /\ orders'[i].download_token = orders[i].download_token
      /\ last'.op = "flow_confirmation" =>
         \A t \in { x \in Tokens : PaidRows(orders, x) # {} } :
         \A a \in Status2Answers :
           flow_confirmation(t, a)
           => /\ Cardinality(PaidRows(orders', t)) = 1
              /\ \A i \in PaidRows(orders', t) :
                   /\ HasRow(orders, i)
                   /\ orders[i].download_token # NULL
                   /\ orders'[i].download_token = orders[i].download_token
                   /\ last'.dtoken = orders[i].download_token
    ]_vars

\* one order, confirmed twice: created at the first reading of the clock,
\* marked at the second and marked again at the third
C1_Witness ==
  /\ Len(orders) = 1
  /\ orders[1].status = Paid
  /\ orders[1].created_at = 1
  /\ orders[1].paid_at = 3
  /\ last.op = "flow_confirmation"
  /\ last.token = orders[1].flow_token
  /\ last.dtoken = orders[1].download_token

\* C2: with confirmations interleaving between their store operations, the
\* download token an order holds never changes after its first assignment
\* (so a second token minted for the order never reaches the store).
C2_TokenStableConcurrent ==
  [][ \A i \in 1..Len(orders) :
        orders[i].download_token # NULL =>
          /\ HasRow(orders', i)
          /\ orders'[i].download_token = orders[i].download_token
    ]_vars

\* C3: a download request is served (the file, or the redirect to it) exactly
\* when some stored order holds the requested download token and is Paid,
\* and is answered 403 otherwise.
C3_DownloadAuthorized ==
  [][ last'.op = "download" =>
      \A d \in DownloadTokens :
        download(d) =>
          /\ last'.code \in {200, 307, 403}
          /\ last'.code # 403 <=>
               \E i \in 1..Len(orders) :
                 orders[i].download_token = d /\ orders[i].status = Paid
    ]_vars

\* a download was authorized while another order was still Pending
C3_Witness ==
  /\ last.op = "download"
  /\ last.code # 403
  /\ \E i \in 1..Len(orders) : orders[i].status = Paid /\ orders[i].download_token # NULL
  /\ \E i \in 1..Len(orders) : orders[i].status = Pending

\* C4: every order stays in the table, its status is Pending or Paid, and a
\* Paid order is Paid after every step: the one change of status is
\* Pending -> Paid.
C4_StatusMonotone ==
  [][ \A i \in 1..Len(orders) :
        /\ HasRow(orders', i)
        /\ orders'[i].id = orders[i].id
        /\ orders'[i].status \in {Pending, Paid}
        /\ orders[i].status = Paid => orders'[i].status = Paid
    ]_vars

\* an order is Paid, and the step before was a confirmation of another token
\* answered with status 2, which marked a second order
C4_Witness ==
  /\ Len(orders) = 2
  /\ orders[1].status = Paid
  /\ orders[1].paid_at < orders[2].paid_at
  /\ last.op = "flow_confirmation"
  /\ last.token = orders[2].flow_token

ValidEmails == { e \in PayloadEmails : EmailIsValid[e] }

\* the gateway created the transaction: HTTP 200 and a body with token and url
CreateSucceeds(a) == a.kind = "token_url" /\ a.http = 200 /\ a.token # NULL

\* C5: for a valid email and a successful createTransaction with token T and
\* url U, pay_create appends one order (Pending, gateway token T, no download
\* token, no paid timestamp), leaves the orders before it as they were, and
\* answers 200 with checkoutUrl U?token=T.
C5_InitiatePersistsPending ==
  [][ last'.op = "pay_create" =>
      \A a \in { x \in CreateAnswers(FreshTokens) : CreateSucceeds(x) } :
      \A e \in ValidEmails :
        pay_create(e, a)
        => /\ Len(orders') = Len(orders) + 1
           /\ SubSeq(orders', 1, Len(orders)) = orders
           /\ orders'[Len(orders')].status = Pending
           /\ orders'[Len(orders')].flow_token = a.token
           /\ orders'[Len(orders')].download_token = NULL
           /\ orders'[Len(orders')].paid_at = NULL
           /\ last'.code = 200
           /\ last'.token = a.token
           /\ last'.url = << a.url, "?token=", a.token >>
    ]_vars

\* a second order was just created next to one that is already Paid
C5_Witness ==
  /\ last.op = "pay_create"
  /\ last.code = 200
  /\ Len(orders) = 2
  /\ orders[1].status = Paid
  /\ orders[2].status = Pending
  /\ orders[2].flow_token = last.token

\* the email is empty, has no "@", or has no "." after its "@"
Malformed(e) ==
  \/ e = <<>>
  \/ \A i \in 1..Len(e) : e[i] # "@"
  \/ \A i \in 1..Len(e) : e[i] = "@" => \A j \in (i + 1)..Len(e) : e[j] # "."

MalformedEmails == { e \in PayloadEmails : Malformed(e) }

\* C6: for a malformed email pay_create answers 400, changes no order and
\* does not call the gateway, whatever the gateway would have answered.
C6_MalformedEmailRejected ==
  [][ last'.op = "pay_create" =>
      \A a \in { x \in CreateAnswers(FreshTokens) : CreateSucceeds(x) } \cup {NoCall} :
      \A e \in MalformedEmails :
        pay_create(e, a)
        => /\ last'.code = 400
           /\ last'.gw = NoCall
           /\ orders' = orders
           /\ uuid_ctr' = uuid_ctr
    ]_vars

\* a request was refused with 400 while the table holds an order
C6_Witness ==
  /\ last.op = "pay_create"
  /\ last.code = 400
  /\ last.gw = NoCall
  /\ Len(orders) > 0

\* the gateway did not create the transaction: no answer, a non-success HTTP
\* status, or a body that is not a JSON object with a token and a url
CreateFails(a) ==
  \/ a.kind \in {"timeout", "notjson", "error_obj", "token_only"}
  \/ a.http # 200
  \/ a.token = NULL

\* C7: when createTransaction fails (non-success HTTP status or malformed
\* body), pay_create answers with an error and the table is as it was.
C7_GatewayFailurePersistsNothing ==
  [][ last'.op = "pay_create" =>
      \A e \in ValidEmails :
      \A a \in { x \in CreateAnswers(FreshTokens) : CreateFails(x) } :
        pay_create(e, a)
        => /\ last'.code # 200
           /\ orders' = orders
    ]_vars

\* C8: the confirmation webhook answers 200 {ok: true} whatever the status
\* query did (status 2, another status, no status, timeout, malformed body).
C8_ConfirmAlwaysAcknowledges ==
  last.op = "flow_confirmation" => last.code = 200

\* C9: a confirmation for a token no order has, with gateway status 2,
\* changes no order, mints no token, adds no background task and answers 200.
C9_UnknownTokenNoOp ==
  [][ last'.op = "flow_confirmation" =>
      \A t \in { x \in Tokens : RowsByFlowToken(orders, x) = {} } :
      \A a \in { x \in StatusAnswers : Reports2(x) } :
        flow_confirmation(t, a)
        => /\ orders' = orders
           /\ uuid_ctr' = uuid_ctr
           /\ tasks' = tasks
           /\ last'.code = 200
    ]_vars

\* status 2 was reported for a token that none of the stored orders has
C9_Witness ==
  /\ last.op = "flow_confirmation"
  /\ last.code = 200
  /\ last.gw = Answered2
  /\ Len(orders) > 0
  /\ \A i \in 1..Len(orders) : orders[i].flow_token # last.token /\ orders[i].status = Pending

\* C10: a confirmation for which the gateway reports a status other than 2
\* (or none) changes no order, mints no token, adds no background task and
\* answers 200.
C10_NotPaidNoAction ==
  [][ last'.op = "flow_confirmation" =>
      \A t \in Tokens :
      \A a \in { x \in StatusAnswers : ~flow_get_status_raises(x) /\ flow_get_status(x) # 2 } :
        flow_confirmation(t, a)
        => /\ orders' = orders
           /\ uuid_ctr' = uuid_ctr
           /\ tasks' = tasks
           /\ last'.code = 200
    ]_vars

\* a status other than 2 was reported for the token of a Pending order, next
\* to a Paid one
C10_Witness ==
  /\ last.op = "flow_confirmation"
  /\ last.code = 200
  /\ last.gw = AnsweredOther
  /\ \E i \in 1..Len(orders) : orders[i].flow_token = last.token /\ orders[i].status = Pending
  /\ \E i \in 1..Len(orders) : orders[i].status = Paid

\* the operations a background task is run by: send_email alone, and
\* send_email handing the message to the Resend transport
SendOps == {"send_email", "send_email_via_resend"}

\* C11: whatever the email transport does with the message (accepts it,
\* refuses it, does not answer), send_email returns normally, takes the task
\* off the queue and leaves the orders and the minted tokens as the
\* confirmation persisted them; the confirmation that added the task answered
\* 200 before the task ran.
C11_SendFailureHarmless ==
  [][ /\ last'.op \in SendOps =>
         \A tr \in TransportAnswers :
           send_email(tr)
           => /\ last'.code = 0
              /\ orders' = orders
              /\ uuid_ctr' = uuid_ctr
              /\ tasks' = Tail(tasks)
      /\ (last'.op = "flow_confirmation" /\ tasks' # tasks) => last'.code = 200
    ]_vars

\* the transport refused the message of a Paid order, and send_email returned
C11_Witness ==
  /\ last.op = "send_email_via_resend"
  /\ last.gw.kind = "refused"
  /\ last.code = 0
  /\ \E i \in 1..Len(orders) :
       /\ orders[i].status = Paid
       /\ last.msg.to = orders[i].email
       /\ last.msg.link = << DOWNLOAD_BASE_URL, "/download/", orders[i].download_token >>

\* ------------------------------------------- a gateway that repeats a token
\* pay_create stores whatever token the gateway's answer carries: the table
\* has no UNIQUE constraint on flow_token, and the answer may carry a token
\* that an earlier answer carried.
NextDup ==
  \/ \E e \in PayloadEmails :
       IF EmailIsValid[e]
       THEN \E a \in CreateAnswers(Tokens) : pay_create(e, a)
       ELSE pay_create(e, NoCall)
  \/ \E t \in Tokens, a \in StatusAnswers : flow_confirmation(t, a)
  \/ \E d \in DownloadTokens : download(d)
  \/ \E tr \in TransportAnswers : send_email(tr)

SpecDup == Init /\ [][NextDup]_vars

\* C12: whatever tokens the gateway returns to pay_create, no two orders hold
\* the same non-null download token.
C12_DownloadTokensUnique ==
  \A i \in 1..Len(orders), j \in 1..Len(orders) :
    (i # j /\ orders[i].download_token # NULL)
    => orders[i].download_token # orders[j].download_token

\* C13: db_mark_paid called for an order that is already Paid, with the
\* download token the order holds, leaves the table as it was, the paid
\* timestamp included.
C13_MarkPaidRepeatedIsNoOp ==
  \A i \in 1..Len(orders) :
    orders[i].status = Paid
    => db_mark_paid(orders, orders[i].flow_token, orders[i].download_token, now) = orders

\* C14: every step keeps every order in the table with its id, email,
\* creation timestamp, commerce-order reference and gateway token; a step of
\* any handler but flow_confirmation leaves every existing order as it was.
C14_LifecycleFrame ==
  [][ \A i \in 1..Len(orders) :
        /\ HasRow(orders', i)
        /\ orders'[i].id = orders[i].id
        /\ orders'[i].email = orders[i].email
        /\ orders'[i].created_at = orders[i].created_at
        /\ orders'[i].commerce_order = orders[i].commerce_order
        /\ orders'[i].flow_token = orders[i].flow_token
        /\ last'.op # "flow_confirmation" => orders'[i] = orders[i]
    ]_vars

\* a confirmation marked the second of two orders, created after the first,
\* and the first stayed Pending
C14_Witness ==
  /\ Len(orders) = 2
  /\ last.op = "flow_confirmation"
  /\ last.dtoken # NULL
  /\ orders[1].status = Pending
  /\ orders[2].status = Paid
  /\ orders[2].download_token = last.dtoken
  /\ orders[2].created_at < orders[2].paid_at
  /\ orders[1].created_at < orders[2].created_at

\* the order a message is for: Paid, with the address the message goes to
\* and the download token its link ends with
PaidOrderOf(tbl, m) ==
  { i \in 1..Len(tbl) :
      /\ tbl[i].status = Paid
      /\ tbl[i].download_token # NULL
      /\ tbl[i].email = m.to
      /\ m.link = << DOWNLOAD_BASE_URL, "/download/", tbl[i].download_token >> }

\* C15: a confirmation that adds a notification has, in the same step,
\* persisted Paid and the download token of the link and answered 200, and it
\* runs no notification itself (the queue only grows); a notification is run
\* in a later step of its own, off the head of the queue, and the order it is
\* for is by then stored Paid with the token of the link, which is
\* DOWNLOAD_BASE_URL/download/<token>.
C15_NotifyAfterPersistAndResponse ==
  [][ /\ last'.op = "flow_confirmation" =>
         /\ Len(tasks') >= Len(tasks)
         /\ SubSeq(tasks', 1, Len(tasks)) = tasks
         /\ tasks' # tasks =>
              /\ Len(tasks') = Len(tasks) + 1
              /\ last'.code = 200
              /\ tasks'[Len(tasks')].link = << DOWNLOAD_BASE_URL, "/download/", last'.dtoken >>
              /\ \E i \in PaidOrderOf(orders', tasks'[Len(tasks')]) :
                   orders'[i].flow_token = last'.token
      /\ last'.op \in SendOps =>
         /\ tasks # <<>>
         /\ last'.msg = Head(tasks)
         /\ PaidOrderOf(orders, last'.msg) # {}
         /\ orders' = orders
    ]_vars

\* the confirmation has answered, the order is stored Paid with the token of
\* the link, and the notification is still waiting to be run
C15_Witness ==
  /\ last.op = "flow_confirmation"
  /\ last.code = 200
  /\ last.dtoken # NULL
  /\ Len(tasks) = 1
  /\ tasks[1].link = << DOWNLOAD_BASE_URL, "/download/", last.dtoken >>
  /\ PaidOrderOf(orders, tasks[1]) # {}

\* ------------------------------------------------ background tasks do run
\* The framework runs the background task of a response once the response
\* is sent: a task on the queue is not left there forever.
SpecLive == Spec /\ WF_vars(\E tr \in TransportAnswers : send_email(tr))

\* the messages a confirmation may add: a stored email and a minted token
Messages ==
  { EmailTask(NormalisedEmail[e], d) : e \in ValidEmails, d \in 1..MaxUuid }

\* the message was handed to a transport: the one call of a transport in
\* send_email is send_email_via_resend (line 170)
DeliveryAttempt(m) == last.op = "send_email_via_resend" /\ last.msg = m

\* C16: under either provider setting, a message that a confirmation put on
\* the queue is eventually handed to the provider's transport.
C16_MarkLeadsToDeliveryAttempt ==
  \A m \in Messages :
    (tasks # <<>> /\ Head(tasks) = m) ~> DeliveryAttempt(m)

\* C17: in every state every order is either Pending with no download token
\* and no paid timestamp, or Paid with both.
C17_PaidMarkersAgree ==
  \A i \in 1..Len(orders) :
    /\ orders[i].status = Paid <=> orders[i].download_token # NULL
    /\ orders[i].status = Paid <=> orders[i].paid_at # NULL

\* a Paid order with its token and timestamp next to a Pending one with none
C17_Witness ==
  \E i \in 1..Len(orders), j \in 1..Len(orders) :
    /\ orders[i].status = Paid
    /\ orders[i].download_token # NULL
    /\ orders[i].paid_at # NULL
    /\ orders[j].status = Pending
    /\ orders[j].download_token = NULL
    /\ orders[j].paid_at = NULL

\* C18: the table starts empty, an order is stored as Paid only by a step
\* of flow_confirmation in which the gateway reported status 2 for the
\* order's gateway token, and a download is served only for a token that a
\* Paid order holds: no download is served before such a confirmation.
C18_NoDownloadWithoutPayment ==
  [][ /\ \A i \in 1..Len(orders') :
           ( /\ orders'[i].status = Paid
             /\ ~(HasRow(orders, i) /\ orders[i].status = Paid) )
           => /\ last'.op = "flow_confirmation"
              /\ last'.gw = Answered2
              /\ last'.token = orders'[i].flow_token
      /\ last'.op = "download" =>
         \A d \in DownloadTokens :
           (download(d) /\ last'.code # 403)
           => \E i \in 1..Len(orders) :
                orders[i].download_token = d /\ orders[i].status = Paid
    ]_vars

\* a download was served: the one order of the table is Paid, and the
\* confirmation that marked it came after its creation
C18_Witness ==
  /\ last.op = "download"
  /\ last.code \in {200, 307}
  /\ Len(orders) = 1
  /\ orders[1].status = Paid
  /\ orders[1].created_at < orders[1].paid_at

\* lines 241-242 of download: a row holds the token and its status is 2
Authorized(tbl, download_token) ==
  LET row == db_get_by_download_token(tbl, download_token)
  IN row # <<>> /\ row[1].status = 2

\* the step just taken handed the transport a message whose link carries the
\* download token, and the transport accepted it
Dispatched(download_token) ==
  /\ last.op = "send_email_via_resend"
  /\ last.gw.kind = "accepted"
  /\ last.msg.link = << DOWNLOAD_BASE_URL, "/download/", download_token >>

\* C19: with confirmations interleaving between their lookup and their
\* write, a download token whose notification was just dispatched is
\* authorized then and is still authorized after whatever step comes next.
C19_DispatchedLinkStaysValid ==
  [][ \A d \in DownloadTokens :
        Dispatched(d) => Authorized(orders, d) /\ Authorized(orders', d)
    ]_vars

====
